---- MODULE Spec2Model ----
(***************************************************************************)
(* Model of the Waveshare 2.7" B e-paper driver (src/epd2in7/mod.rs).      *)
(*                                                                         *)
(* Every controller operation is a straight-line program of calls on the   *)
(* DisplayInterface (reset, cmd, data, data_x_times, wait_until_idle).     *)
(* The programs below are transcribed line by line from mod.rs; one step   *)
(* of the model executes one bus write (or the reset, or one poll of the   *)
(* busy line).  A bus write may fail; `?` returns the error at once.       *)
(* log is the stream the current (or last) call has put on the wires.      *)
(***************************************************************************)
EXTENDS Integers, Sequences, FiniteSets, TLC

(* ---------------------------------------------------------------- bounds *)
MaxPolls == 2
\* inside the data_x_times loop the bus is let fail at the first MaxFailIter
\* iterations and at the last one; every other bus write may fail
MaxFailIter == 2

(* ------------------------------------------------------------- constants *)
WIDTH == 176
HEIGHT == 264
\* mutant: the default background is Black
DEFAULT_BACKGROUND_COLOR_black == "Black"
DEFAULT_BACKGROUND_COLOR == "White"
IS_BUSY_LOW == TRUE

Colors == {"White", "Black"}
BusErrors == {"E1", "E2"}
RefreshLuts == {"None", "Full", "Quick"}

(* Color::get_byte_value (crate::color) *)
get_byte_value(c) == IF c = "White" THEN 255 ELSE 0

(* ------------------------------------------------ events and instructions *)
Ev(k, c, t, b, n) == [kind |-> k, cmd |-> c, table |-> t, bytes |-> b, n |-> n]

EvReset(d) == Ev("reset", "", "", <<>>, d)
EvCmd(c) == Ev("cmd", c, "", <<>>, 0)
EvData(b) == Ev("data", "", "", b, 0)
EvTable(t) == Ev("data", "", t, <<>>, 0)
EvDataX(v, k) == Ev("data_x", "", "", <<v>>, k)
EvPoll == Ev("poll", "", "", <<>>, 0)

Instr(e) == [ev |-> e, try |-> FALSE]

(* the `?` operator: the error of the call is returned to the caller *)
Q(p) == [i \in 1..Len(p) |-> [p[i] EXCEPT !.try = TRUE]]

(* The lookup tables of constants.rs, kept symbolic *)
LUT_VCOM_DC == "LUT_VCOM_DC"
LUT_WW == "LUT_WW"
LUT_BW == "LUT_BW"
LUT_WB == "LUT_WB"
LUT_BB == "LUT_BB"

(* --------------------------------------------- DisplayInterface primitives *)
interface_reset(d) == <<Instr(EvReset(d))>>
interface_cmd(c) == <<Instr(EvCmd(c))>>
interface_data(b) == <<Instr(EvData(b))>>
interface_data_table(t) == <<Instr(EvTable(t))>>
interface_cmd_with_data(c, b) == interface_cmd(c) \o interface_data(b)
interface_cmd_with_table(c, t) == interface_cmd(c) \o interface_data_table(t)
interface_data_x_times(v, n) == <<Instr(EvDataX(v, n))>>
interface_wait_until_idle(low) == <<Instr(EvPoll)>>

(* u32 arithmetic of the geometry header *)
U8(v) == v % 256
Shr8(v) == v \div 256
And0xf8(v) == (v % 256) - (v % 8)
And0xff(v) == v % 256

(* ------------------------------------------------- controller operations *)
\* mutant: the status is requested but the busy line is not polled
wait_until_idle_no_poll ==
    Q(interface_cmd("GetStatus"))

\* mutant: the status is requested a second time before the poll
wait_until_idle_status_twice ==
    Q(interface_cmd("GetStatus"))
    \o Q(interface_cmd("GetStatus"))
    \o interface_wait_until_idle(IS_BUSY_LOW)

wait_until_idle ==
    Q(interface_cmd("GetStatus"))
    \o interface_wait_until_idle(IS_BUSY_LOW)

\* mutant: the quick refresh rate installs the VCOM table only
set_lut_by_rate(refresh_rate) ==
    IF refresh_rate = "Quick"
    THEN Q(interface_cmd_with_table("LutForVcom", LUT_VCOM_DC))
    ELSE Q(interface_cmd_with_table("LutForVcom", LUT_VCOM_DC))
         \o Q(interface_cmd_with_table("LutWhiteToWhite", LUT_WW))
         \o Q(interface_cmd_with_table("LutBlackToWhite", LUT_BW))
         \o Q(interface_cmd_with_table("LutWhiteToBlack", LUT_BB))
         \o Q(interface_cmd_with_table("LutBlackToBlack", LUT_WB))

set_lut(refresh_rate) ==
    Q(interface_cmd_with_table("LutForVcom", LUT_VCOM_DC))
    \o Q(interface_cmd_with_table("LutWhiteToWhite", LUT_WW))
    \o Q(interface_cmd_with_table("LutBlackToWhite", LUT_BW))
    \o Q(interface_cmd_with_table("LutWhiteToBlack", LUT_BB))
    \o Q(interface_cmd_with_table("LutBlackToBlack", LUT_WB))

\* mutant: the LUTs are programmed before the panel and PLL settings
init_lut_early ==
    interface_reset(2)
    \o Q(interface_cmd_with_data("PowerSetting", <<3, 0, 43, 43, 9>>))
    \o Q(interface_cmd_with_data("BoosterSoftStart", <<7, 7, 23>>))
    \o Q(interface_cmd_with_data("PowerOptimization", <<96, 165>>))
    \o Q(interface_cmd_with_data("PowerOptimization", <<137, 165>>))
    \o Q(interface_cmd_with_data("PowerOptimization", <<144, 0>>))
    \o Q(interface_cmd_with_data("PowerOptimization", <<147, 42>>))
    \o Q(interface_cmd_with_data("PowerOptimization", <<160, 165>>))
    \o Q(interface_cmd_with_data("PowerOptimization", <<161, 0>>))
    \o Q(interface_cmd_with_data("PowerOptimization", <<115, 65>>))
    \o Q(interface_cmd_with_data("PartialDisplayRefresh", <<0>>))
    \o Q(interface_cmd("PowerOn"))
    \o wait_until_idle
    \o set_lut("None")
    \o Q(interface_cmd_with_data("PanelSetting", <<175>>))
    \o Q(interface_cmd_with_data("PllControl", <<58>>))
    \o Q(interface_cmd_with_data("VcmDcSetting", <<18>>))

init ==
    interface_reset(2)
    \o Q(interface_cmd_with_data("PowerSetting", <<3, 0, 43, 43, 9>>))
    \o Q(interface_cmd_with_data("BoosterSoftStart", <<7, 7, 23>>))
    \o Q(interface_cmd_with_data("PowerOptimization", <<96, 165>>))
    \o Q(interface_cmd_with_data("PowerOptimization", <<137, 165>>))
    \o Q(interface_cmd_with_data("PowerOptimization", <<144, 0>>))
    \o Q(interface_cmd_with_data("PowerOptimization", <<147, 42>>))
    \o Q(interface_cmd_with_data("PowerOptimization", <<160, 165>>))
    \o Q(interface_cmd_with_data("PowerOptimization", <<161, 0>>))
    \o Q(interface_cmd_with_data("PowerOptimization", <<115, 65>>))
    \o Q(interface_cmd_with_data("PartialDisplayRefresh", <<0>>))
    \o Q(interface_cmd("PowerOn"))
    \o wait_until_idle
    \o Q(interface_cmd_with_data("PanelSetting", <<175>>))
    \o Q(interface_cmd_with_data("PllControl", <<58>>))
    \o Q(interface_cmd_with_data("VcmDcSetting", <<18>>))
    \o set_lut("None")

\* mutant: a lighter wake path that skips the hardware reset
wake_up_no_reset == Tail(init)
\* mutant: a wake path that stops after PowerOn and its wait
wake_up_power_on_only == SubSeq(init, 1, 24)
wake_up == init

\* mutant: DeepSleep follows PowerOff without the second wait
sleep_no_second_wait ==
    wait_until_idle
    \o Q(interface_cmd_with_data("VcomAndDataIntervalSetting", <<247>>))
    \o Q(interface_cmd("PowerOff"))
    \o Q(interface_cmd_with_data("DeepSleep", <<165>>))

\* mutant: the interval setting is programmed after PowerOff
sleep_interval_late ==
    wait_until_idle
    \o Q(interface_cmd("PowerOff"))
    \o Q(interface_cmd_with_data("VcomAndDataIntervalSetting", <<247>>))
    \o wait_until_idle
    \o Q(interface_cmd_with_data("DeepSleep", <<165>>))

sleep ==
    wait_until_idle
    \o Q(interface_cmd_with_data("VcomAndDataIntervalSetting", <<247>>))
    \o Q(interface_cmd("PowerOff"))
    \o wait_until_idle
    \o Q(interface_cmd_with_data("DeepSleep", <<165>>))

\* mutant: update_frame wakes the panel itself before it sends the frame
update_frame_auto_wake(buffer) ==
    init
    \o Q(interface_cmd_with_data("DataStartTransmission2", buffer))

\* mutant: a buffer that is not a full frame is rejected without a write
update_frame_length_checked(buffer) ==
    IF Len(buffer) = (WIDTH * HEIGHT) \div 8
    THEN Q(interface_cmd_with_data("DataStartTransmission2", buffer))
    ELSE <<>>

update_frame(buffer) ==
    Q(interface_cmd_with_data("DataStartTransmission2", buffer))

\* mutant: the low byte of y is masked to a multiple of 8 like that of x
GeometryHeader_y_masked(x, y, width, height) ==
    Q(interface_data(<<U8(Shr8(x))>>))
    \o Q(interface_data(<<U8(And0xf8(x))>>))
    \o Q(interface_data(<<U8(Shr8(y))>>))
    \o Q(interface_data(<<U8(And0xf8(y))>>))
    \o Q(interface_data(<<U8(Shr8(width))>>))
    \o Q(interface_data(<<U8(And0xf8(width))>>))
    \o Q(interface_data(<<U8(Shr8(height))>>))
    \o Q(interface_data(<<U8(And0xff(height))>>))

GeometryHeader(x, y, width, height) ==
    Q(interface_data(<<U8(Shr8(x))>>))
    \o Q(interface_data(<<U8(And0xf8(x))>>))
    \o Q(interface_data(<<U8(Shr8(y))>>))
    \o Q(interface_data(<<U8(And0xff(y))>>))
    \o Q(interface_data(<<U8(Shr8(width))>>))
    \o Q(interface_data(<<U8(And0xf8(width))>>))
    \o Q(interface_data(<<U8(Shr8(height))>>))
    \o Q(interface_data(<<U8(And0xff(height))>>))

update_partial_frame(buffer, x, y, width, height) ==
    Q(interface_cmd("PartialDataStartTransmission1"))
    \o GeometryHeader(x, y, width, height)
    \o Q(interface_data(buffer))
    \o Q(interface_cmd("DisplayRefresh"))
    \o wait_until_idle

\* mutant: the result of the DisplayRefresh write is dropped
display_frame_unchecked ==
    interface_cmd("DisplayRefresh")
    \o wait_until_idle

display_frame ==
    Q(interface_cmd("DisplayRefresh"))
    \o wait_until_idle

\* mutant: the refresh is triggered before the frame is sent
update_and_display_frame_swapped(buffer) ==
    display_frame
    \o update_frame(buffer)

update_and_display_frame(buffer) ==
    update_frame(buffer)
    \o display_frame

\* mutant: the second plane is filled with one byte per pixel
clear_frame_second_plane_long(c) ==
    LET color_value == get_byte_value(c)
    IN  Q(interface_cmd("DataStartTransmission1"))
        \o Q(interface_data_x_times(color_value, (WIDTH * HEIGHT) \div 8))
        \o Q(interface_cmd("DataStartTransmission2"))
        \o Q(interface_data_x_times(color_value, WIDTH * HEIGHT))

clear_frame(c) ==
    LET color_value == get_byte_value(c)
    IN  Q(interface_cmd("DataStartTransmission1"))
        \o Q(interface_data_x_times(color_value, (WIDTH * HEIGHT) \div 8))
        \o Q(interface_cmd("DataStartTransmission2"))
        \o Q(interface_data_x_times(color_value, (WIDTH * HEIGHT) \div 8))

\* mutant: the refresh helper reuses the command of the data transfer
display_partial_frame_data_command(x, y, width, height) ==
    Q(interface_cmd("PartialDataStartTransmission1"))
    \o GeometryHeader(x, y, width, height)
    \o wait_until_idle

display_partial_frame(x, y, width, height) ==
    Q(interface_cmd("PartialDisplayRefresh"))
    \o GeometryHeader(x, y, width, height)
    \o wait_until_idle

\* mutant: the two accessors are exchanged
width_as_height == HEIGHT
width == WIDTH
height == HEIGHT

(* ------------------------------------------------------------ test inputs *)
FullFrame == [i \in 1..((WIDTH * HEIGHT) \div 8) |-> 0]
Buffers == {FullFrame, <<>>, <<1, 2, 3>>}
PartialBuffers == {<<>>, <<170, 85>>}
Rects == {<<0, 0, 8, 8>>, <<13, 300, 21, 257>>, <<65801, 7, 176, 264>>}

(* the commands after which the panel works on its own and raises busy *)
LongRunning == {"PowerOn", "DisplayRefresh", "PowerOff", "DeepSleep"}

(* ------------------------------------------------------------------ state *)
VARIABLES
    epd,        \* "none" | "some": does the caller hold an Epd2in7
    color,      \* Epd2in7.color
    lifecycle,  \* "Uninitialized" | "Ready" | "Asleep"
    busy,       \* the panel's busy line, as is_busy(IS_BUSY_LOW) reads it
    op,         \* name of the operation running or last run
    prog,       \* its program
    pc,         \* next instruction, 0 when no call is running
    cnt,        \* loop counter of data_x_times
    polls,      \* iterations of the busy loop that saw the line busy
    log,        \* what this call has put on the wires
    result,     \* what the call returned
    failed,     \* a bus write of this call has failed
    failLog,    \* log at the first failure
    busErr,     \* the error the bus returned
    ret,        \* value returned by an accessor
    arg,        \* the inputs of the call
    prev        \* the previous call, kept when wake_up or set_lut is repeated

vars == <<epd, color, lifecycle, busy, op, prog, pc, cnt, polls, log, result,
          failed, failLog, busErr, ret, arg, prev>>

NoResult == [tag |-> "none", err |-> "none"]
OkResult == [tag |-> "Ok", err |-> "none"]
ErrResult(e) == [tag |-> "Err", err |-> e]
NoRet == [of |-> "none", val |-> 0, col |-> "none", flag |-> FALSE]
NoArg == [buffer |-> <<>>, rect |-> <<0, 0, 0, 0>>, sel |-> "None"]
NoPrev == [wake |-> FALSE, lut |-> FALSE, log |-> <<>>, color |-> "none",
           lifecycle |-> "none", sel |-> "None"]

Idle == pc = 0
Running == pc > 0
Cur == prog[pc]

Init ==
    /\ epd = "none"
    /\ color = DEFAULT_BACKGROUND_COLOR
    /\ lifecycle = "Uninitialized"
    /\ busy = FALSE
    /\ op = "none"
    /\ prog = <<>>
    /\ pc = 0
    /\ cnt = 0
    /\ polls = 0
    /\ log = <<>>
    /\ result = NoResult
    /\ failed = FALSE
    /\ failLog = <<>>
    /\ busErr = "none"
    /\ ret = NoRet
    /\ arg = NoArg
    /\ prev = NoPrev

(* entering a controller operation *)
Call(o, p, a) ==
    /\ Idle
    /\ op' = o
    /\ prog' = p
    /\ pc' = 1
    /\ cnt' = 0
    /\ polls' = 0
    /\ log' = <<>>
    /\ result' = NoResult
    /\ failed' = FALSE
    /\ failLog' = <<>>
    /\ busErr' = "none"
    /\ ret' = NoRet
    /\ arg' = a
    /\ prev' = IF o \in {"wake_up", "set_lut"} /\ op = o /\ result = OkResult
                THEN [wake |-> o = "wake_up", lut |-> o = "set_lut",
                      log |-> log, color |-> color,
                      lifecycle |-> lifecycle, sel |-> arg.sel]
                ELSE NoPrev
    /\ UNCHANGED <<epd, lifecycle, busy>>

new ==
    /\ epd = "none"
    /\ Call("new", init, NoArg)
    /\ color' = DEFAULT_BACKGROUND_COLOR

\* mutant: waking up puts the default background color back
WakeUp_resets_color ==
    /\ epd = "some"
    /\ Call("wake_up", wake_up, NoArg)
    /\ color' = DEFAULT_BACKGROUND_COLOR

WakeUp ==
    /\ epd = "some"
    /\ Call("wake_up", wake_up, NoArg)
    /\ UNCHANGED color

\* mutant: going to sleep puts the default background color back
Sleep_resets_color ==
    /\ epd = "some"
    /\ Call("sleep", sleep, NoArg)
    /\ color' = DEFAULT_BACKGROUND_COLOR

Sleep ==
    /\ epd = "some"
    /\ Call("sleep", sleep, NoArg)
    /\ UNCHANGED color

UpdateFrame ==
    /\ epd = "some"
    /\ \E buffer \in Buffers : Call("update_frame", update_frame(buffer),
               [NoArg EXCEPT !.buffer = buffer])
    /\ UNCHANGED color

UpdatePartialFrame ==
    /\ epd = "some"
    /\ \E buffer \in PartialBuffers, r \in Rects :
          Call("update_partial_frame",
               update_partial_frame(buffer, r[1], r[2], r[3], r[4]),
               [NoArg EXCEPT !.buffer = buffer, !.rect = r])
    /\ UNCHANGED color

DisplayFrame ==
    /\ epd = "some"
    /\ Call("display_frame", display_frame, NoArg)
    /\ UNCHANGED color

UpdateAndDisplayFrame ==
    /\ epd = "some"
    /\ \E buffer \in Buffers :
          Call("update_and_display_frame", update_and_display_frame(buffer),
               [NoArg EXCEPT !.buffer = buffer])
    /\ UNCHANGED color

ClearFrame ==
    /\ epd = "some"
    /\ Call("clear_frame", clear_frame(color), NoArg)
    /\ UNCHANGED color

SetLut ==
    /\ epd = "some"
    /\ \E refresh_rate \in RefreshLuts : Call("set_lut", set_lut(refresh_rate),
               [NoArg EXCEPT !.sel = refresh_rate])
    /\ UNCHANGED color

DisplayPartialFrame ==
    /\ epd = "some"
    /\ \E r \in Rects :
          Call("display_partial_frame",
               display_partial_frame(r[1], r[2], r[3], r[4]),
               [NoArg EXCEPT !.rect = r])
    /\ UNCHANGED color

(* operations that do not touch the interface: they return at once *)
Accessor(o, r) ==
    /\ epd = "some"
    /\ Idle
    /\ op' = o
    /\ prog' = <<>>
    /\ log' = <<>>
    /\ result' = NoResult
    /\ failed' = FALSE
    /\ failLog' = <<>>
    /\ busErr' = "none"
    /\ arg' = NoArg
    /\ cnt' = 0
    /\ polls' = 0
    /\ ret' = r
    /\ prev' = NoPrev
    /\ UNCHANGED <<epd, lifecycle, busy, pc>>

SetBackgroundColor ==
    \E c \in Colors :
        /\ Accessor("set_background_color", [NoRet EXCEPT !.of = "unit"])
        /\ color' = c

BackgroundColor ==
    /\ Accessor("background_color", [NoRet EXCEPT !.of = "color", !.col = color])
    /\ UNCHANGED color

Width ==
    /\ Accessor("width", [NoRet EXCEPT !.of = "u32", !.val = width])
    /\ UNCHANGED color

Height ==
    /\ Accessor("height", [NoRet EXCEPT !.of = "u32", !.val = height])
    /\ UNCHANGED color

IsBusy ==
    /\ Accessor("is_busy", [NoRet EXCEPT !.of = "bool", !.flag = busy])
    /\ UNCHANGED color

(* ----------------------------------------------- steps of a running call *)
Fetch(k) == Running /\ pc <= Len(prog) /\ Cur.ev.kind = k

KeepCall == UNCHANGED <<epd, color, lifecycle, op, prog, ret, arg, prev>>
NoFailure == UNCHANGED <<failed, failLog, busErr>>

(* DisplayInterface::reset *)
StepReset ==
    /\ Fetch("reset")
    /\ log' = Append(log, Cur.ev)
    /\ pc' = pc + 1
    /\ KeepCall /\ NoFailure
    /\ UNCHANGED <<busy, cnt, polls, result>>

(* DisplayInterface::cmd, the bus write succeeds *)
StepCmd ==
    /\ Fetch("cmd")
    /\ log' = Append(log, Cur.ev)
    /\ busy' = IF Cur.ev.cmd \in LongRunning THEN TRUE ELSE busy
    /\ pc' = pc + 1
    /\ KeepCall /\ NoFailure
    /\ UNCHANGED <<cnt, polls, result>>

(* DisplayInterface::data, the bus write succeeds *)
StepData ==
    /\ Fetch("data")
    /\ log' = Append(log, Cur.ev)
    /\ pc' = pc + 1
    /\ KeepCall /\ NoFailure
    /\ UNCHANGED <<busy, cnt, polls, result>>

(* DisplayInterface::data_x_times, one iteration whose write succeeds *)
StepDataX ==
    /\ Fetch("data_x")
    /\ cnt < Cur.ev.n
    /\ log' = IF cnt = 0
               THEN Append(log, EvDataX(Cur.ev.bytes[1], 1))
               ELSE [log EXCEPT ![Len(log)].n = cnt + 1]
    /\ cnt' = cnt + 1
    /\ KeepCall /\ NoFailure
    /\ UNCHANGED <<busy, pc, polls, result>>

(* DisplayInterface::data_x_times, the loop is over *)
StepDataXDone ==
    /\ Fetch("data_x")
    /\ cnt = Cur.ev.n
    /\ cnt' = 0
    /\ pc' = pc + 1
    /\ KeepCall /\ NoFailure
    /\ UNCHANGED <<busy, log, polls, result>>

(* DisplayInterface::wait_until_idle, the line is busy: poll again *)
StepPollBusy ==
    /\ Fetch("poll")
    /\ busy
    /\ polls < MaxPolls
    /\ polls' = polls + 1
    /\ KeepCall /\ NoFailure
    /\ UNCHANGED <<busy, pc, cnt, log, result>>

(* DisplayInterface::wait_until_idle, the line is ready: the loop ends *)
StepPollReady ==
    /\ Fetch("poll")
    /\ ~busy
    /\ log' = Append(log, Cur.ev)
    /\ pc' = pc + 1
    /\ KeepCall /\ NoFailure
    /\ UNCHANGED <<busy, cnt, polls, result>>

(* the SPI write of cmd, data or data_x_times returns Err(e) *)
StepBusError ==
    /\ Running /\ pc <= Len(prog)
    /\ Cur.ev.kind \in {"cmd", "data", "data_x"}
    /\ Cur.ev.kind = "data_x" =>
          /\ cnt < Cur.ev.n
          /\ cnt < MaxFailIter \/ cnt = Cur.ev.n - 1
    /\ \E e \in BusErrors :
        /\ failed' = TRUE
        /\ failLog' = IF failed THEN failLog ELSE log
        /\ busErr' = IF failed THEN busErr ELSE e
        /\ IF Cur.try
             THEN /\ result' = ErrResult(e)
                  /\ pc' = 0
             ELSE /\ result' = result
                  /\ pc' = pc + 1
    /\ cnt' = 0
    /\ KeepCall
    /\ UNCHANGED <<busy, polls, log>>

(* the operation reaches its final Ok(..) *)
Return ==
    /\ Running /\ pc = Len(prog) + 1
    /\ result' = OkResult
    /\ pc' = 0
    /\ epd' = IF op = "new" THEN "some" ELSE epd
    /\ lifecycle' = CASE op \in {"new", "wake_up"} -> "Ready"
                      [] op = "sleep" -> "Asleep"
                      [] OTHER -> lifecycle
    /\ NoFailure
    /\ UNCHANGED <<color, busy, op, prog, cnt, polls, log, ret, arg, prev>>

(* the panel finishes its internal operation and releases the busy line *)
PanelReady ==
    /\ busy
    /\ busy' = FALSE
    /\ UNCHANGED <<epd, color, lifecycle, op, prog, pc, cnt, polls, log,
                   result, failed, failLog, busErr, ret, arg, prev>>

Next ==
    \/ new
    \/ WakeUp
    \/ Sleep
    \/ UpdateFrame
    \/ UpdatePartialFrame
    \/ DisplayFrame
    \/ UpdateAndDisplayFrame
    \/ ClearFrame
    \/ SetLut
    \/ DisplayPartialFrame
    \/ SetBackgroundColor
    \/ BackgroundColor
    \/ Width
    \/ Height
    \/ IsBusy
    \/ StepReset
    \/ StepCmd
    \/ StepData
    \/ StepDataX
    \/ StepDataXDone
    \/ StepPollBusy
    \/ StepPollReady
    \/ StepBusError
    \/ Return
    \/ PanelReady

Spec == Init /\ [][Next]_vars

(* The blocking operations on a bus that never fails.  A running call goes
   on to its next statement (the driver is single threaded and nothing
   preempts it for ever), and the panel finishes what it was told to do. *)
LiveStep ==
    \/ StepReset
    \/ StepCmd
    \/ StepData
    \/ StepPollReady
    \/ Return

LiveNext ==
    \/ new
    \/ WakeUp
    \/ Sleep
    \/ DisplayFrame
    \/ UpdateAndDisplayFrame
    \/ UpdatePartialFrame
    \/ DisplayPartialFrame
    \/ StepReset
    \/ StepCmd
    \/ StepData
    \/ StepPollBusy
    \/ StepPollReady
    \/ Return
    \/ PanelReady

LiveSpec ==
    /\ Init
    /\ [][LiveNext]_vars
    /\ WF_vars(LiveStep)
    /\ WF_vars(PanelReady)

TypeOK ==
    /\ epd \in {"none", "some"}
    /\ color \in Colors
    /\ lifecycle \in {"Uninitialized", "Ready", "Asleep"}
    /\ busy \in BOOLEAN
    /\ pc \in 0..(Len(prog) + 1)
    /\ polls \in 0..MaxPolls
    /\ result.tag \in {"none", "Ok", "Err"}

(* ================================================================ claims *)
DoneOk == Idle /\ result = OkResult /\ ~failed
IsWrite(e) == e.kind \in {"cmd", "data", "data_x"}
CmdAt(i, c) == log[i] = EvCmd(c)
HasCmd(c) == \E i \in 1..Len(log) : CmdAt(i, c)
IsPrefixOf(s, t) == Len(s) <= Len(t) /\ \A i \in 1..Len(s) : s[i] = t[i]
LutCommands == {"LutForVcom", "LutWhiteToWhite", "LutBlackToWhite",
                "LutWhiteToBlack", "LutBlackToBlack"}
LutTables == {LUT_VCOM_DC, LUT_WW, LUT_BW, LUT_WB, LUT_BB}
FrameOps == {"clear_frame", "update_frame", "display_frame",
             "update_and_display_frame", "update_partial_frame",
             "display_partial_frame"}
FrameCommands == {"DataStartTransmission1", "DataStartTransmission2",
                  "PartialDataStartTransmission1", "DisplayRefresh",
                  "PartialDisplayRefresh"}

(* what one wait-until-idle of the controller leaves in the log *)
WaitStream == <<EvCmd("GetStatus"), EvPoll>>

(* the initialization stream up to the LUT programming, as C1 lists it *)
InitHead ==
    <<EvReset(2),
      EvCmd("PowerSetting"), EvData(<<3, 0, 43, 43, 9>>),
      EvCmd("BoosterSoftStart"), EvData(<<7, 7, 23>>),
      EvCmd("PowerOptimization"), EvData(<<96, 165>>),
      EvCmd("PowerOptimization"), EvData(<<137, 165>>),
      EvCmd("PowerOptimization"), EvData(<<144, 0>>),
      EvCmd("PowerOptimization"), EvData(<<147, 42>>),
      EvCmd("PowerOptimization"), EvData(<<160, 165>>),
      EvCmd("PowerOptimization"), EvData(<<161, 0>>),
      EvCmd("PowerOptimization"), EvData(<<115, 65>>),
      EvCmd("PartialDisplayRefresh"), EvData(<<0>>),
      EvCmd("PowerOn")>>
    \o WaitStream
    \o <<EvCmd("PanelSetting"), EvData(<<175>>),
         EvCmd("PllControl"), EvData(<<58>>),
         EvCmd("VcmDcSetting"), EvData(<<18>>)>>

(* events i > Len(InitHead) are the LUT writes: a LUT command, then a table *)
LutTailOk ==
    \A i \in (Len(InitHead) + 1)..Len(log) :
        /\ i <= Len(InitHead) + 10
        /\ IF (i - Len(InitHead)) % 2 = 1
             THEN log[i].kind = "cmd" /\ log[i].cmd \in LutCommands
             ELSE log[i].kind = "data" /\ log[i].table \in LutTables
        /\ \A j \in (Len(InitHead) + 1)..(i - 1) : log[j] # log[i]

(* C1: a run of initialization (from new or wake_up) on a bus that does not
   fail emits the reset with delay 2, PowerSetting, BoosterSoftStart, the
   seven PowerOptimization pairs, PartialDisplayRefresh [0], PowerOn and a
   wait-until-idle, PanelSetting [0xaf], PllControl [0x3a], VcmDcSetting
   [0x12] and then five LUT command+table writes, in this order and nothing
   else; while it runs the log is a prefix of that stream. *)
C1_InitStream ==
    (op \in {"new", "wake_up"} /\ ~failed) =>
        /\ IF Len(log) <= Len(InitHead)
             THEN IsPrefixOf(log, InitHead)
             ELSE IsPrefixOf(InitHead, log) /\ LutTailOk
        /\ DoneOk => Len(log) = Len(InitHead) + 10

C1_Witness ==
    /\ op = "new" /\ DoneOk
    /\ Len(log) = 40
    /\ CmdAt(22, "PowerOn")

(* C2 as stated: no command or data byte is written to the bus while the
   busy line reports busy after a long-running command. *)
BusWrite == StepCmd \/ StepData \/ StepDataX
C2_NoWriteWhileBusy == [][BusWrite => ~busy]_vars

(* C2 amended: within one operation, between a PowerOn, DisplayRefresh or
   PowerOff command and the poll that sees the busy line ready, the only
   thing written to the bus is the GetStatus command of wait-until-idle. *)
Awaited == {"PowerOn", "DisplayRefresh", "PowerOff"}
C2_OnlyGetStatusBeforePoll ==
    \A i \in 1..Len(log) : \A j \in (i + 1)..Len(log) :
        ( /\ log[i].kind = "cmd" /\ log[i].cmd \in Awaited
          /\ IsWrite(log[j])
          /\ \A k \in (i + 1)..(j - 1) : log[k] # EvPoll )
        => log[j] = EvCmd("GetStatus")

C2_Witness ==
    /\ op = "sleep" /\ Running /\ busy
    /\ Len(log) = 6
    /\ CmdAt(5, "PowerOff")
    /\ CmdAt(6, "GetStatus")

(* C3 as stated: update_and_display_frame with a full frame writes only
   DataStartTransmission2, the buffer, DisplayRefresh, and then polls. *)
C3_NoOtherCommand ==
    (op = "update_and_display_frame" /\ arg.buffer = FullFrame /\ DoneOk) =>
        log = <<EvCmd("DataStartTransmission2"), EvData(FullFrame),
                EvCmd("DisplayRefresh"), EvPoll>>

(* C3 amended: update_and_display_frame with a full frame on a bus that
   does not fail emits DataStartTransmission2, the 5808 buffer bytes,
   DisplayRefresh, then the GetStatus command, then the busy poll that ends
   when the line is ready; it returns only after that poll. *)
C3_UpdateAndDisplayStream ==
    (op = "update_and_display_frame" /\ arg.buffer = FullFrame /\ ~failed) =>
        /\ IsPrefixOf(log, <<EvCmd("DataStartTransmission2"),
                             EvData(arg.buffer), EvCmd("DisplayRefresh"),
                             EvCmd("GetStatus"), EvPoll>>)
        /\ DoneOk => Len(log) = 5 /\ Len(log[2].bytes) = 5808

C3_Witness ==
    /\ op = "update_and_display_frame" /\ arg.buffer = FullFrame /\ DoneOk
    /\ Len(log) = 5
    /\ polls > 0

(* C4: in every run of initialization the reset comes before any command
   byte, and every LUT write comes after the PanelSetting and the PllControl
   writes; a completed run has made all five LUT writes. *)
C4_ResetFirstLutLast ==
    op \in {"new", "wake_up"} =>
        /\ \A i \in 1..Len(log) :
              IsWrite(log[i]) => \E j \in 1..(i - 1) : log[j].kind = "reset"
        /\ \A i \in 1..Len(log) :
              (log[i].kind = "cmd" /\ log[i].cmd \in LutCommands) =>
                 /\ \E j \in 1..(i - 1) : CmdAt(j, "PanelSetting")
                 /\ \E j \in 1..(i - 1) : CmdAt(j, "PllControl")
        /\ DoneOk => \A c \in LutCommands : HasCmd(c)

C4_Witness ==
    /\ op = "wake_up" /\ DoneOk
    /\ HasCmd("LutBlackToBlack")
    /\ log[1].kind = "reset"

(* C5: the second of two wake_up calls in succession runs the whole
   initialization again, reset included, emits the same stream as the
   first, and leaves the controller Ready with the same background color. *)
C5_WakeUpTwice ==
    (op = "wake_up" /\ prev.wake /\ DoneOk) =>
        /\ log = prev.log
        /\ log[1] = EvReset(2)
        /\ Len(log) = 40
        /\ color = prev.color
        /\ lifecycle = "Ready" /\ prev.lifecycle = "Ready"

C5_Witness ==
    /\ op = "wake_up" /\ prev.wake /\ DoneOk
    /\ Len(prev.log) = 40

(* C6: once a bus write of an operation has failed, the operation has
   returned that very error, and it has written nothing and polled nothing
   after the failure. *)
C6_ErrorPropagates ==
    failed =>
        /\ Idle
        /\ result = ErrResult(busErr)
        /\ log = failLog

C6_Witness ==
    /\ failed
    /\ op = "update_and_display_frame"
    /\ Len(log) = 3
    /\ result = ErrResult("E2")

(* C7: the caller holds a handle only after new has run the reset and the
   whole initialization without bus error, and the handle new returns has
   background color White; when a bus write of the initialization fails,
   new returns that error and no handle. *)
C7_Construction ==
    /\ (op = "new" /\ Idle /\ result = OkResult) =>
          /\ epd = "some" /\ ~failed
          /\ log[1] = EvReset(2) /\ Len(log) = 40
          /\ color = "White"
    /\ (op = "new" /\ ~(Idle /\ result = OkResult)) => epd = "none"
    /\ (op = "new" /\ failed) => result = ErrResult(busErr) /\ epd = "none"
    /\ op = "none" => epd = "none"

C7_Witness == op = "new" /\ DoneOk /\ epd = "some"

(* C8: sleep on a bus that does not fail performs a wait-until-idle,
   VcomAndDataIntervalSetting [0xf7], PowerOff, a second wait-until-idle and
   DeepSleep [0xA5], in this order; DeepSleep is never written before the
   poll that follows PowerOff has seen the line ready. *)
SleepStream ==
    WaitStream
    \o <<EvCmd("VcomAndDataIntervalSetting"), EvData(<<247>>),
         EvCmd("PowerOff")>>
    \o WaitStream
    \o <<EvCmd("DeepSleep"), EvData(<<165>>)>>

C8_SleepOrder ==
    op = "sleep" =>
        /\ ~failed => IsPrefixOf(log, SleepStream)
        /\ DoneOk => log = SleepStream
        /\ \A i \in 1..Len(log) :
              CmdAt(i, "DeepSleep") =>
                 \E j \in 1..(i - 1) : \E k \in (j + 1)..(i - 1) :
                     CmdAt(j, "PowerOff") /\ log[k] = EvPoll

C8_Witness == op = "sleep" /\ DoneOk /\ HasCmd("DeepSleep") /\ polls > 0

(* C9 as stated: between a completed sleep and the next completed wake_up
   no frame operation writes a frame-data or refresh command. *)
C9_NoFrameWriteAsleep ==
    (lifecycle = "Asleep" /\ op \in FrameOps) =>
        \A i \in 1..Len(log) :
            ~(log[i].kind = "cmd" /\ log[i].cmd \in FrameCommands)

(* C9 amended: the lifecycle moves Uninitialized -> Ready on construction,
   Ready -> Asleep on sleep and Asleep -> Ready on wake_up, but the driver
   does not enforce it: a frame operation writes its own leading command
   first, without any reset, whatever the lifecycle state, Asleep
   included. *)
LeadCmd(o) ==
    CASE o = "clear_frame" -> "DataStartTransmission1"
      [] o = "update_frame" -> "DataStartTransmission2"
      [] o = "update_and_display_frame" -> "DataStartTransmission2"
      [] o = "display_frame" -> "DisplayRefresh"
      [] o = "update_partial_frame" -> "PartialDataStartTransmission1"
      [] o = "display_partial_frame" -> "PartialDisplayRefresh"

LifecycleStep ==
    \/ lifecycle' = lifecycle
    \/ lifecycle = "Uninitialized" /\ lifecycle' = "Ready" /\ op = "new"
    \/ lifecycle = "Ready" /\ lifecycle' = "Asleep" /\ op = "sleep"
    \/ lifecycle = "Asleep" /\ lifecycle' = "Ready" /\ op = "wake_up"

FrameOpsNotGated ==
    (op \in FrameOps /\ Len(log) >= 1) =>
        /\ log[1] = EvCmd(LeadCmd(op))
        /\ \A i \in 1..Len(log) : log[i].kind # "reset"

C9_LifecycleNotEnforced == [][LifecycleStep]_vars /\ []FrameOpsNotGated

C9_Witness ==
    /\ lifecycle = "Asleep"
    /\ op = "update_frame" /\ DoneOk
    /\ log = <<EvCmd("DataStartTransmission2"), EvData(arg.buffer)>>

(* C10: for every background color c, clear_frame writes 5808 bytes after
   DataStartTransmission1 and 5808 bytes after DataStartTransmission2, each
   equal to c's byte value, 11616 in all; it writes no DisplayRefresh and
   does not poll the busy line. *)
DataBytes(e) == IF e.kind = "data_x" THEN e.n ELSE Len(e.bytes)
RECURSIVE TotalData(_)
TotalData(s) == IF s = <<>> THEN 0 ELSE DataBytes(Head(s)) + TotalData(Tail(s))

C10_ClearFrame ==
    op = "clear_frame" =>
        /\ DoneOk =>
              /\ log = <<EvCmd("DataStartTransmission1"),
                         EvDataX(get_byte_value(color), 5808),
                         EvCmd("DataStartTransmission2"),
                         EvDataX(get_byte_value(color), 5808)>>
              /\ TotalData(log) = 2 * 5808
        /\ ~HasCmd("DisplayRefresh")
        /\ \A i \in 1..Len(log) : log[i] # EvPoll
        /\ polls = 0

C10_Witness ==
    /\ op = "clear_frame" /\ DoneOk
    /\ color = "Black"
    /\ log[4].n = 5808

(* C11: in update_partial_frame and in display_partial_frame the eight data
   writes that follow the command byte carry, one byte each, x>>8, x&0xF8,
   y>>8, y&0xFF, w>>8, w&0xF8, h>>8, h&0xFF: the low bytes of x and w are
   rounded down to a multiple of 8, those of y and h are not, and a high
   byte is the value >>8 reduced to 8 bits. *)
PartialOps == {"update_partial_frame", "display_partial_frame"}
HighByte(v) == (v \div 256) % 256
LowByteMasked(v) == 8 * ((v % 256) \div 8)
LowByte(v) == v % 256
ExpectedHeader(r) ==
    <<HighByte(r[1]), LowByteMasked(r[1]), HighByte(r[2]), LowByte(r[2]),
      HighByte(r[3]), LowByteMasked(r[3]), HighByte(r[4]), LowByte(r[4])>>

C11_GeometryHeader ==
    (op \in PartialOps /\ ~failed) =>
        /\ \A i \in 1..8 :
              i + 1 <= Len(log) => log[i + 1] = EvData(<<ExpectedHeader(arg.rect)[i]>>)
        /\ DoneOk => Len(log) >= 9
        /\ \A i \in {2, 6} : ExpectedHeader(arg.rect)[i] % 8 = 0

C11_Witness ==
    /\ op = "display_partial_frame" /\ DoneOk
    /\ arg.rect = <<65801, 7, 176, 264>>
    /\ log[2] = EvData(<<1>>) /\ log[3] = EvData(<<8>>)
    /\ log[5] = EvData(<<7>>) /\ log[9] = EvData(<<8>>)

(* C12: update_partial_frame emits PartialDataStartTransmission1, eight
   geometry bytes, the window payload, DisplayRefresh and then waits until
   idle; display_partial_frame emits PartialDisplayRefresh, eight geometry
   bytes, no payload, and then waits until idle; neither ever emits the
   leading command of the other. *)
IsHeaderByte(e) == e.kind = "data" /\ Len(e.bytes) = 1 /\ e.table = ""
HeaderAt(lo) == \A i \in lo..(lo + 7) : i <= Len(log) => IsHeaderByte(log[i])

C12_PartialStreams ==
    /\ op = "update_partial_frame" =>
          /\ ~HasCmd("PartialDisplayRefresh")
          /\ Len(log) >= 1 => CmdAt(1, "PartialDataStartTransmission1")
          /\ HeaderAt(2)
          /\ Len(log) >= 10 =>
                IsPrefixOf(SubSeq(log, 10, Len(log)),
                           <<EvData(arg.buffer), EvCmd("DisplayRefresh")>>
                           \o WaitStream)
          /\ DoneOk => Len(log) = 13
    /\ op = "display_partial_frame" =>
          /\ ~HasCmd("PartialDataStartTransmission1")
          /\ ~HasCmd("DisplayRefresh")
          /\ Len(log) >= 1 => CmdAt(1, "PartialDisplayRefresh")
          /\ HeaderAt(2)
          /\ Len(log) >= 10 => IsPrefixOf(SubSeq(log, 10, Len(log)), WaitStream)
          /\ DoneOk => Len(log) = 11

C12_Witness ==
    /\ op = "update_partial_frame" /\ DoneOk
    /\ arg.buffer = <<170, 85>>
    /\ log[10] = EvData(<<170, 85>>)
    /\ CmdAt(11, "DisplayRefresh")

(* C13 as stated: wake_up, which runs the initialization again, mutates the
   background color, that is, a completed wake_up leaves the color the
   initialization starts from, White. *)
C13_WakeUpMutatesColor ==
    (op = "wake_up" /\ DoneOk) => color = "White"

(* C13 amended: the background color is White at construction and after
   that only set_background_color changes it; wake_up and every other
   operation leave it as it is. *)
C13_OnlySetBackgroundColor ==
    [][color' # color => op' = "set_background_color" /\ Idle']_vars

C13_Witness ==
    /\ op = "wake_up" /\ DoneOk
    /\ color = "Black"

(* C14: update_frame, whatever the length of the buffer, emits the
   DataStartTransmission2 command and then the bytes of the buffer, the same
   bytes in the same order; it writes no DisplayRefresh and does not wait. *)
C14_UpdateFrameVerbatim ==
    op = "update_frame" =>
        /\ ~failed => IsPrefixOf(log, <<EvCmd("DataStartTransmission2"),
                                        EvData(arg.buffer)>>)
        /\ DoneOk =>
              /\ Len(log) = 2
              /\ Len(log[2].bytes) = Len(arg.buffer)
              /\ \A i \in 1..Len(arg.buffer) : log[2].bytes[i] = arg.buffer[i]
        /\ ~HasCmd("DisplayRefresh")
        /\ \A i \in 1..Len(log) : log[i] # EvPoll
        /\ polls = 0

C14_Witness ==
    /\ op = "update_frame" /\ DoneOk
    /\ arg.buffer = <<1, 2, 3>>
    /\ log[2].bytes = <<1, 2, 3>>

(* C15: set_lut emits, for every refresh-rate selector and whatever was
   called before, the five command+table writes LutForVcom, LutWhiteToWhite,
   LutBlackToWhite, LutWhiteToBlack, LutBlackToBlack in this order; a second
   set_lut, with any selector, emits the same stream as the first; set_lut
   changes neither the color nor the lifecycle nor the handle, and it does
   not poll the busy line. *)
LutOrder == <<"LutForVcom", "LutWhiteToWhite", "LutBlackToWhite",
              "LutWhiteToBlack", "LutBlackToBlack">>

SetLutStream ==
    op = "set_lut" =>
        /\ Len(log) <= 10
        /\ ~failed =>
              \A i \in 1..Len(log) :
                 IF i % 2 = 1
                 THEN log[i] = EvCmd(LutOrder[(i + 1) \div 2])
                 ELSE log[i].kind = "data" /\ log[i].table \in LutTables
        /\ DoneOk => Len(log) = 10
        /\ (DoneOk /\ prev.lut) =>
              /\ log = prev.log
              /\ color = prev.color
              /\ lifecycle = prev.lifecycle
        /\ \A i \in 1..Len(log) : log[i] # EvPoll
        /\ polls = 0

SetLutKeepsState ==
    op' = "set_lut" => color' = color /\ lifecycle' = lifecycle /\ epd' = epd

C15_SetLutStateless == []SetLutStream /\ [][SetLutKeepsState]_vars

C15_Witness ==
    /\ op = "set_lut" /\ DoneOk
    /\ prev.lut /\ prev.sel = "None" /\ arg.sel = "Quick"
    /\ lifecycle = "Asleep"

(* C16: width() returns 176 and height() returns 264 in every reachable
   state, whatever has been called before, and the number of bytes
   clear_frame writes per plane, WIDTH * HEIGHT / 8, is 5808 with no
   remainder. *)
C16_Geometry ==
    /\ op = "width" => ret.of = "u32" /\ ret.val = 176
    /\ op = "height" => ret.of = "u32" /\ ret.val = 264
    /\ (WIDTH * HEIGHT) % 8 = 0
    /\ op = "clear_frame" =>
          /\ prog[2].ev.n = 5808 /\ prog[4].ev.n = 5808
          /\ prog[2].ev.n * 8 = 176 * 264

C16_Witness ==
    /\ op = "width" /\ ret.val = 176
    /\ lifecycle = "Asleep" /\ color = "Black"

(* C17: on a bus that never fails, a blocking operation (init through new
   or wake_up, sleep, display_frame, update_and_display_frame,
   update_partial_frame, display_partial_frame) returns in the end when the
   busy line gets ready at each of its waits, and it has polled the line
   before it returns; there is no timeout: as long as the line stays busy
   the waiting operation neither returns nor writes anything. *)
BlockingOps == {"new", "wake_up", "sleep", "display_frame",
                "update_and_display_frame", "update_partial_frame",
                "display_partial_frame"}

StuckWhileBusy ==
    (Fetch("poll") /\ busy /\ busy') =>
        log' = log /\ pc' = pc /\ result' = result /\ op' = op

ReturnedAfterPoll ==
    (op \in BlockingOps /\ DoneOk) => \E i \in 1..Len(log) : log[i] = EvPoll

C17_BlockingOpsReturn ==
    /\ Running ~> Idle
    /\ [][StuckWhileBusy]_vars
    /\ []ReturnedAfterPoll

C17_Witness ==
    /\ op = "display_frame" /\ DoneOk
    /\ polls > 0
    /\ log = <<EvCmd("DisplayRefresh")>> \o WaitStream

(* C18 as stated: the wait-until-idle of the controller cannot fail, so an
   operation that has written PowerOn, DisplayRefresh or PowerOff and then
   returns an error has polled the busy line ready after that command. *)
C18_WaitNeverFails ==
    \A i \in 1..Len(log) :
        (log[i].kind = "cmd" /\ log[i].cmd \in Awaited /\ result.tag = "Err")
        => \E k \in (i + 1)..Len(log) : log[k] = EvPoll

(* C18 amended: the polling of the busy line itself never fails, but the
   wait-until-idle of the controller first writes the GetStatus command and
   returns the bus error when that write fails; so an operation that fails
   after PowerOn, DisplayRefresh or PowerOff without having polled the line
   ready has failed in that GetStatus write, and once GetStatus is written
   the operation does not fail before the poll has seen the line ready. *)
C18_OnlyGetStatusCanFail ==
    /\ \A i \in 1..Len(log) :
          (log[i].kind = "cmd" /\ log[i].cmd \in Awaited /\ failed) =>
             \/ /\ i = Len(log)
                /\ pc = 0 /\ result = ErrResult(busErr)
                /\ prog[i + 1].ev = EvCmd("GetStatus")
             \/ /\ i + 2 <= Len(log)
                /\ log[i + 1] = EvCmd("GetStatus")
                /\ log[i + 2] = EvPoll
    /\ (Running /\ pc <= Len(prog) /\ Cur.ev.kind = "poll") =>
          ~failed /\ result = NoResult

C18_Witness ==
    /\ op = "display_frame" /\ failed
    /\ result = ErrResult("E1")
    /\ log = <<EvCmd("DisplayRefresh")>>

(* C19: every LUT command is followed by the table of the same transition:
   LutForVcom by LUT_VCOM_DC, LutWhiteToWhite by LUT_WW, LutBlackToWhite by
   LUT_BW, LutWhiteToBlack by LUT_WB and LutBlackToBlack by LUT_BB. *)
TableOf(c) ==
    CASE c = "LutForVcom" -> LUT_VCOM_DC
      [] c = "LutWhiteToWhite" -> LUT_WW
      [] c = "LutBlackToWhite" -> LUT_BW
      [] c = "LutWhiteToBlack" -> LUT_WB
      [] c = "LutBlackToBlack" -> LUT_BB

C19_LutPairing ==
    \A i \in 1..(Len(log) - 1) :
        (log[i].kind = "cmd" /\ log[i].cmd \in LutCommands) =>
            log[i + 1] = EvTable(TableOf(log[i].cmd))

(* C20: set_background_color, background_color, width, height and is_busy
   write nothing to the bus, return at once without polling and leave the
   lifecycle state alone; sleep, clear_frame, update_frame, display_frame,
   update_and_display_frame, update_partial_frame and display_partial_frame
   leave the background color as it was, whether they succeed or fail. *)
NonProtocolOps == {"set_background_color", "background_color", "width",
                   "height", "is_busy"}
ColorKeepingOps == {"sleep", "clear_frame", "update_frame", "display_frame",
                    "update_and_display_frame", "update_partial_frame",
                    "display_partial_frame"}

NonProtocolQuiet ==
    op \in NonProtocolOps =>
        Idle /\ log = <<>> /\ polls = 0 /\ ~failed /\ result = NoResult

NonProtocolStep ==
    op' \in NonProtocolOps =>
        Idle /\ Idle' /\ lifecycle' = lifecycle /\ epd' = epd

ColorKept == op' \in ColorKeepingOps => color' = color

C20_FrameEffects ==
    /\ []NonProtocolQuiet
    /\ [][NonProtocolStep]_vars
    /\ [][ColorKept]_vars

C20_Witness ==
    /\ op = "sleep" /\ failed /\ result.tag = "Err"
    /\ Len(log) >= 5
    /\ color = "Black"

====
